---- MODULE Spec2Model ----
(***************************************************************************)
(* Model of src/src/exercise/06.js: the useToggle hook with control props. *)
(*                                                                         *)
(* One hook instance is a record `c` holding what React keeps for it       *)
(* between renders (the useRef cells, the useReducer state and its queue   *)
(* of pending updates) together with what the last render closed over      *)
(* (props, on) and what it has sent outwards: the warnings logged by the    *)
(* last render, the onChange calls made by the last toggle()/reset() and   *)
(* the number of onChange calls made so far.                               *)
(* Every operator takes and returns such a record, so that the same code   *)
(* can be run under the development and the production build side by side.*)
(***************************************************************************)
EXTENDS Integers, Sequences, FiniteSets, TLC

\* ------------------------------------------------------------------ bounds
MaxDispatch == 3     \* toggle()/reset() calls in one run
MaxClicks == 8       \* clicks on the demo App in one run

\* ------------------------------------------------------------ JS values
\* the `on` prop: an optional boolean; undefined and null are both "absent"
ControlPropValues == {"undefined", "null", "true", "false"}
\* the `onChange` prop: absent, or a callable sink
OnChangeValues == {"undefined", "sink"}
\* process.env.NODE_ENV
NodeEnvs == {"development", "production"}

Props == [on : ControlPropValues, onChange : OnChangeValues,
          readOnly : BOOLEAN, initialOn : BOOLEAN]

ToggleState == [on : BOOLEAN]

\* actionTypes
actionTypes == [toggle |-> "toggle", reset |-> "reset"]

\* the value of a present control prop
ControlledOn(v) == v = "true"

\* mutant: truthiness instead of != null
NotNull_Truthy(v) == v = "true"

\* controlPropValue != null  (loose inequality: false for undefined and null)
NotNull(v) == v \notin {"undefined", "null"}

\* Boolean(onChangePropValue)
HasOnChange(v) == v # "undefined"

\* what a reducer call that throws yields
Thrown == [thrown |-> "Unsupported type"]

\* whether a reducer call threw
IsThrown(r) == "thrown" \in DOMAIN r

\* ------------------------------------------------------------ toggleReducer
\* mutant: toggle switches on instead of inverting
toggleReducer_SetOn(state, action) ==
  CASE action.type = actionTypes.toggle -> [on |-> TRUE]
    [] action.type = actionTypes.reset -> action.initialState
    [] OTHER -> Thrown

toggleReducer(state, action) ==
  CASE action.type = actionTypes.toggle -> [on |-> ~state.on]
    [] action.type = actionTypes.reset -> action.initialState
    [] OTHER -> Thrown

\* React.useReducer at render: the pending updates are applied in order to
\* the memoized state; a reducer call that throws ends the render
RECURSIVE ProcessQueue(_, _)
ProcessQueue(state, queue) ==
  IF queue = <<>> \/ IsThrown(state) THEN state
  ELSE ProcessQueue(toggleReducer(state, Head(queue)), Tail(queue))

\* ------------------------------------------------------------ warning()
NoWarnings == [u2c |-> 0, c2u |-> 0, ro |-> 0]

\* warning(condition, message): logs the message when condition is false
warning(c, condition, kind) ==
  IF condition THEN c
  ELSE [c EXCEPT !.warnings[kind] = @ + 1]

\* ------------------------------------------------ useControlledSwitchWarning
\* mutant: the effect has no dependency array and runs after every render
useControlledSwitchWarning_NoDeps(c, prevProps, controlPropValue, mount) ==
  LET isControlled == NotNull(controlPropValue)
      c1 == IF mount THEN [c EXCEPT !.isControlledRef = isControlled] ELSE c
      uncontrolledToControlled == ~c1.isControlledRef /\ isControlled
      controlledToUncontrolled == c1.isControlledRef /\ ~isControlled
  IN  warning(warning(c1, ~uncontrolledToControlled, "u2c"),
              ~controlledToUncontrolled, "c2u")

\* mutant: on a flip the effect also puts the store back to its initial state
useControlledSwitchWarning_Resets(c, prevProps, controlPropValue, mount) ==
  LET isControlled == NotNull(controlPropValue)
      c1 == IF mount THEN [c EXCEPT !.isControlledRef = isControlled] ELSE c
      run == mount \/ NotNull(prevProps.on) # isControlled
      uncontrolledToControlled == ~c1.isControlledRef /\ isControlled
      controlledToUncontrolled == c1.isControlledRef /\ ~isControlled
      c2 == IF uncontrolledToControlled \/ controlledToUncontrolled
            THEN [c1 EXCEPT !.state = c1.initialState] ELSE c1
  IN  IF run
      THEN warning(warning(c2, ~uncontrolledToControlled, "u2c"),
                   ~controlledToUncontrolled, "c2u")
      ELSE c1

\* `mount` is true on the first render; the effect runs on mount and when
\* one of its dependencies [isControlled, isControlledRef] differs from the
\* previous render's.  isControlledRef is only ever given its initial value.
useControlledSwitchWarning(c, prevProps, controlPropValue, mount) ==
  LET isControlled == NotNull(controlPropValue)
      c1 == IF mount THEN [c EXCEPT !.isControlledRef = isControlled] ELSE c
      run == mount \/ NotNull(prevProps.on) # isControlled
      uncontrolledToControlled == ~c1.isControlledRef /\ isControlled
      controlledToUncontrolled == c1.isControlledRef /\ ~isControlled
  IN  IF run
      THEN warning(warning(c1, ~uncontrolledToControlled, "u2c"),
                   ~controlledToUncontrolled, "c2u")
      ELSE c1

\* ------------------------------------------------ useOnChangeReadOnlyWarning
\* mutant: the readOnly acknowledgment is ignored
useOnChangeReadOnlyWarning_NoAck(c, prevProps, onChangePropValue, controlPropValue, readOnly, mount) ==
  LET hasOnChange == HasOnChange(onChangePropValue)
      isControlled == NotNull(controlPropValue)
      run == \/ mount
             \/ HasOnChange(prevProps.onChange) # hasOnChange
             \/ NotNull(prevProps.on) # isControlled
             \/ prevProps.readOnly # readOnly
      isReadOnly == ~hasOnChange /\ isControlled
  IN  IF run THEN warning(c, ~isReadOnly, "ro") ELSE c

useOnChangeReadOnlyWarning(c, prevProps, onChangePropValue, controlPropValue, readOnly, mount) ==
  LET hasOnChange == HasOnChange(onChangePropValue)
      isControlled == NotNull(controlPropValue)
      run == \/ mount
             \/ HasOnChange(prevProps.onChange) # hasOnChange
             \/ NotNull(prevProps.on) # isControlled
             \/ prevProps.readOnly # readOnly
      isReadOnly == ~hasOnChange /\ isControlled /\ ~readOnly
  IN  IF run THEN warning(c, ~isReadOnly, "ro") ELSE c

\* ------------------------------------------------------------ useToggle
\* the diagnostics block of useToggle (the NODE_ENV gate)
Diagnostics(c, prevProps, p, env, mount) ==
  IF env # "production"
  THEN useOnChangeReadOnlyWarning(
         useControlledSwitchWarning(c, prevProps, p.on, mount),
         prevProps, p.onChange, p.on, p.readOnly, mount)
  ELSE c

\* mutant: on is the control prop or else the store's value (on || state.on)
EffectiveOn_Blend(controlledOn, state) ==
  IF ControlledOn(controlledOn) THEN TRUE ELSE state.on

\* const on = onIsControlled ? controlledOn : state.on
EffectiveOn(controlledOn, state) ==
  IF NotNull(controlledOn) THEN ControlledOn(controlledOn) ELSE state.on

\* first render of useToggle with props p
Mount(p, env) ==
  LET initialState == [on |-> p.initialOn]
      c0 == [initialState |-> initialState,
             state |-> initialState,
             queue |-> <<>>,
             props |-> p,
             on |-> EffectiveOn(p.on, initialState),
             isControlledRef |-> FALSE,
             warnings |-> NoWarnings,
             calls |-> <<>>,
             nCalls |-> 0,
             thrown |-> "none"]
  IN  Diagnostics(c0, p, p, env, TRUE)

\* mutant: initialState is rebuilt from the props of every render
InitialStateRef_Rebuilt(c, p) == [on |-> p.initialOn]

\* initialState on a later render: the ref keeps its first value
InitialStateRef(c, p) == c.initialState

\* a later render of useToggle with props p; `warnings` is what this render
\* writes to the log
useToggle(c, p, env) ==
  LET state == ProcessQueue(c.state, c.queue)
      c1 == [c EXCEPT !.initialState = InitialStateRef(c, p),
                      !.state = state,
                      !.queue = <<>>,
                      !.props = p,
                      !.on = EffectiveOn(p.on, state),
                      !.warnings = NoWarnings]
  IN  Diagnostics(c1, c.props, p, env, FALSE)

\* ------------------------------------------------------ dispatchWithOnChange
\* dispatch(action) of useReducer: the action is queued for the next render
dispatch(c, action) == [c EXCEPT !.queue = Append(@, action)]

\* mutant: the sink is only notified under external ownership
CallOnChange_ControlledOnly(c, suggested, action) ==
  IF HasOnChange(c.props.onChange) /\ NotNull(c.props.on)
  THEN [c EXCEPT !.calls = Append(@, <<suggested, action>>),
                 !.nCalls = @ + 1]
  ELSE c

\* onChange?.(suggested, action): with onChange absent the arguments are
\* not evaluated; with onChange present a throw while evaluating them goes
\* to the caller and onChange is not called
CallOnChange(c, suggested, action) ==
  IF HasOnChange(c.props.onChange)
  THEN IF IsThrown(suggested)
       THEN [c EXCEPT !.thrown = suggested.thrown]
       ELSE [c EXCEPT !.calls = Append(@, <<suggested, action>>),
                      !.nCalls = @ + 1]
  ELSE c

\* mutant: the ownership test is inverted
dispatchWithOnChange_Inverted(c, action) ==
  LET onIsControlled == NotNull(c.props.on)
      c0 == [c EXCEPT !.calls = <<>>, !.thrown = "none"]
      c1 == IF onIsControlled THEN dispatch(c0, action) ELSE c0
      suggested == toggleReducer([c.state EXCEPT !.on = c.on], action)
  IN  CallOnChange(c1, suggested, action)

\* mutant: the suggestion is computed from the raw store state
dispatchWithOnChange_RawState(c, action) ==
  LET onIsControlled == NotNull(c.props.on)
      c0 == [c EXCEPT !.calls = <<>>, !.thrown = "none"]
      c1 == IF ~onIsControlled THEN dispatch(c0, action) ELSE c0
      suggested == toggleReducer(c.state, action)
  IN  CallOnChange(c1, suggested, action)

dispatchWithOnChange(c, action) ==
  LET onIsControlled == NotNull(c.props.on)
      c0 == [c EXCEPT !.calls = <<>>, !.thrown = "none"]
      c1 == IF ~onIsControlled THEN dispatch(c0, action) ELSE c0
      suggested == toggleReducer([c.state EXCEPT !.on = c.on], action)
  IN  CallOnChange(c1, suggested, action)

toggle(c) == dispatchWithOnChange(c, [type |-> actionTypes.toggle])

reset(c) ==
  dispatchWithOnChange(c, [type |-> actionTypes.reset,
                           initialState |-> c.initialState])

\* the state the store holds once its pending updates are applied
StoreCurrent(c) == ProcessQueue(c.state, c.queue)

\* ----------------------------------------------------------------- callAll
\* callAll(...fns): the callable it returns, which closes over fns
callAll(fns) == [callAll |-> fns]

\* (...args) => fns.forEach(fn => fn?.(...args)): the calls made, in order
Invoke(h, args) ==
  LET present == SelectSeq(h.callAll, LAMBDA fn : fn \notin {"undefined", "null"})
  IN  [i \in 1..Len(present) |-> <<present[i], args>>]

\* the effect of those calls on the hook instance: toggle and reset are the
\* hook's own functions, any other callable is the caller's
RECURSIVE RunCalls(_, _)
RunCalls(c, calls) ==
  IF calls = <<>> THEN c
  ELSE LET fn == Head(calls)[1]
           c1 == CASE fn = "toggle" -> toggle(c)
                   [] fn = "reset" -> reset(c)
                   [] OTHER -> c
       IN  RunCalls(c1, Tail(calls))

\* ------------------------------------------------------------ prop getters
\* a boolean attribute value
BoolStr(b) == IF b THEN "true" ELSE "false"

\* the properties a caller may pass to a prop getter
OverrideKeys == {"onClick", "aria-pressed", "aria-label"}

OverrideValues(k) ==
  CASE k = "onClick" -> {"undefined", "handler"}
    [] k = "aria-pressed" -> {"mixed"}
    [] OTHER -> {"custom-button"}

Overrides ==
  UNION { {f \in [D -> {"undefined", "handler", "mixed", "custom-button"}] :
             \A k \in D : f[k] \in OverrideValues(k)} : D \in SUBSET OverrideKeys }

\* {onClick, ...props} = overrides
OnClickOf(overrides) ==
  IF "onClick" \in DOMAIN overrides THEN overrides["onClick"] ELSE "undefined"

RestOf(overrides) == [k \in DOMAIN overrides \ {"onClick"} |-> overrides[k]]

\* mutant: toggle runs before the caller's handler
getTogglerProps_ToggleFirst(c, overrides) ==
  RestOf(overrides)
    @@ ("aria-pressed" :> BoolStr(c.on))
    @@ ("onClick" :> callAll(<<"toggle", OnClickOf(overrides)>>))

\* mutant: the caller's properties are spread first
getTogglerProps_SpreadFirst(c, overrides) ==
  ("aria-pressed" :> BoolStr(c.on))
    @@ ("onClick" :> callAll(<<OnClickOf(overrides), "toggle">>))
    @@ RestOf(overrides)

\* {'aria-pressed': on, onClick: callAll(onClick, toggle), ...props}: a later
\* key of the literal wins
getTogglerProps(c, overrides) ==
  RestOf(overrides)
    @@ ("aria-pressed" :> BoolStr(c.on))
    @@ ("onClick" :> callAll(<<OnClickOf(overrides), "toggle">>))

\* {onClick: callAll(onClick, reset), ...props}
getResetterProps(c, overrides) ==
  RestOf(overrides)
    @@ ("onClick" :> callAll(<<OnClickOf(overrides), "reset">>))

\* the number of calls of the hook's own functions among `calls`
RECURSIVE NumDispatches(_)
NumDispatches(calls) ==
  IF calls = <<>> THEN 0
  ELSE (IF Head(calls)[1] \in {"toggle", "reset"} THEN 1 ELSE 0)
         + NumDispatches(Tail(calls))

\* ------------------------------------------------------------------ state
VARIABLES c,          \* the hook instance under the build nodeEnv
          prod,       \* the same instance run under the production build
          nodeEnv,    \* process.env.NODE_ENV of the build
          mountInitialOn, \* the initialOn prop of the first render
          mountControlled, \* whether the first render had an `on` prop
          lastOp,     \* the last operation performed
          nDispatch,  \* toggle()/reset() calls so far
          nSinkDispatch, \* of those, the ones made with an onChange prop
          onlyToggles, \* no reset and no controlled render so far
          click,      \* the last click on an element carrying a prop bundle
          app         \* the demo App: its state and its three Toggles

vars == <<c, prod, nodeEnv, mountInitialOn, mountControlled, lastOp, nDispatch,
          nSinkDispatch, onlyToggles, click, app>>

\* no click yet
NoClick == [target |-> "none", onClick |-> "undefined", log |-> <<>>]

\* the App is not rendered
NoApp == [mounted |-> FALSE]

Init ==
  \E p \in Props, env \in NodeEnvs :
    /\ c = Mount(p, env)
    /\ prod = Mount(p, "production")
    /\ nodeEnv = env
    /\ mountInitialOn = p.initialOn
    /\ mountControlled = NotNull(p.on)
    /\ lastOp = "mount"
    /\ nDispatch = 0
    /\ nSinkDispatch = 0
    /\ onlyToggles = ~NotNull(p.on)
    /\ click = NoClick
    /\ app = NoApp

\* the owner renders the component again, with the same or with new props
Render ==
  /\ lastOp # "crashed"
  /\ ~IsThrown(StoreCurrent(c))
  /\ \E p \in Props :
       /\ c' = useToggle(c, p, nodeEnv)
       /\ prod' = useToggle(prod, p, "production")
       /\ onlyToggles' = (onlyToggles /\ ~NotNull(p.on))
  /\ lastOp' = "render"
  /\ UNCHANGED <<nodeEnv, mountInitialOn, mountControlled, nDispatch, nSinkDispatch>>
  /\ click' = NoClick
  /\ UNCHANGED app

Toggle ==
  /\ lastOp # "crashed"
  /\ nDispatch < MaxDispatch
  /\ c' = toggle(c)
  /\ prod' = toggle(prod)
  /\ lastOp' = "toggle"
  /\ nDispatch' = nDispatch + 1
  /\ nSinkDispatch' = nSinkDispatch + (IF HasOnChange(c.props.onChange) THEN 1 ELSE 0)
  /\ UNCHANGED <<nodeEnv, mountInitialOn, mountControlled, onlyToggles>>
  /\ click' = NoClick
  /\ UNCHANGED app

Reset ==
  /\ lastOp # "crashed"
  /\ nDispatch < MaxDispatch
  /\ c' = reset(c)
  /\ prod' = reset(prod)
  /\ lastOp' = "reset"
  /\ nDispatch' = nDispatch + 1
  /\ nSinkDispatch' = nSinkDispatch + (IF HasOnChange(c.props.onChange) THEN 1 ELSE 0)
  /\ onlyToggles' = FALSE
  /\ UNCHANGED <<nodeEnv, mountInitialOn, mountControlled>>
  /\ click' = NoClick
  /\ UNCHANGED app

Next == Render \/ Toggle \/ Reset

Spec == Init /\ [][Next]_vars

\* ---------------------------------------------- clicks and other actions
\* a click on an element that carries getTogglerProps(overrides)
ClickToggler ==
  /\ lastOp # "crashed"
  /\ nDispatch < MaxDispatch
  /\ \E ov \in Overrides :
       LET calls == Invoke(getTogglerProps(c, ov)["onClick"], "event")
       IN  /\ c' = RunCalls(c, calls)
           /\ prod' = RunCalls(prod, calls)
           /\ click' = [target |-> "toggler", onClick |-> OnClickOf(ov),
                        log |-> calls]
           /\ nDispatch' = nDispatch + NumDispatches(calls)
           /\ nSinkDispatch' = nSinkDispatch +
                (IF HasOnChange(c.props.onChange) THEN NumDispatches(calls) ELSE 0)
  /\ lastOp' = "toggle"
  /\ UNCHANGED <<nodeEnv, mountInitialOn, mountControlled, onlyToggles, app>>

\* a click on an element that carries getResetterProps(overrides)
ClickResetter ==
  /\ lastOp # "crashed"
  /\ nDispatch < MaxDispatch
  /\ \E ov \in Overrides :
       LET calls == Invoke(getResetterProps(c, ov)["onClick"], "event")
       IN  /\ c' = RunCalls(c, calls)
           /\ prod' = RunCalls(prod, calls)
           /\ click' = [target |-> "resetter", onClick |-> OnClickOf(ov),
                        log |-> calls]
           /\ nDispatch' = nDispatch + NumDispatches(calls)
           /\ nSinkDispatch' = nSinkDispatch +
                (IF HasOnChange(c.props.onChange) THEN NumDispatches(calls) ELSE 0)
  /\ lastOp' = "reset"
  /\ onlyToggles' = FALSE
  /\ UNCHANGED <<nodeEnv, mountInitialOn, mountControlled, app>>

\* dispatchWithOnChange called with an action of a type the reducer does not
\* handle
DispatchOther ==
  /\ lastOp # "crashed"
  /\ nDispatch < MaxDispatch
  /\ c' = dispatchWithOnChange(c, [type |-> "other"])
  /\ prod' = dispatchWithOnChange(prod, [type |-> "other"])
  /\ lastOp' = "other"
  /\ nDispatch' = nDispatch + 1
  /\ onlyToggles' = FALSE
  /\ click' = NoClick
  /\ UNCHANGED <<nodeEnv, mountInitialOn, mountControlled, nSinkDispatch, app>>

\* the next render applies a pending action the reducer does not handle: the
\* reducer throws inside the render and the component is gone
RenderThrows ==
  /\ lastOp # "crashed"
  /\ IsThrown(StoreCurrent(c))
  /\ lastOp' = "crashed"
  /\ click' = NoClick
  /\ UNCHANGED <<c, prod, nodeEnv, mountInitialOn, mountControlled, nDispatch,
                 nSinkDispatch, onlyToggles, app>>

NextUI ==
  \/ Render \/ Toggle \/ Reset
  \/ ClickToggler \/ ClickResetter
  \/ DispatchOther \/ RenderThrows

SpecUI == Init /\ [][NextUI]_vars

\* -------------------------------------------------------------------- App
\* <Toggle on={bothOn} onChange={handleToggleChange} />: Toggle passes on,
\* onChange, initialOn and reducer on to useToggle; readOnly and initialOn
\* take their defaults
SharedToggleProps(bothOn) ==
  [on |-> bothOn, onChange |-> "sink", readOnly |-> FALSE, initialOn |-> FALSE]

\* <Toggle onChange={(...args) => console.info(...)} />
UncontrolledToggleProps ==
  [on |-> "undefined", onChange |-> "sink", readOnly |-> FALSE,
   initialOn |-> FALSE]

\* the props App gives to its i-th Toggle
ToggleProps(a, i) ==
  IF i \in {1, 2} THEN SharedToggleProps(a.bothOn) ELSE UncontrolledToggleProps

\* first render of App: bothOn is undefined, timesClicked is 0
MountApp(env) ==
  [mounted |-> TRUE,
   bothOn |-> "undefined",
   timesClicked |-> 0,
   toggles |-> <<Mount(SharedToggleProps("undefined"), env),
                 Mount(SharedToggleProps("undefined"), env),
                 Mount(UncontrolledToggleProps, env)>>,
   u2c |-> <<0, 0, 0>>,
   nEvents |-> 0,
   last |-> "mount",
   ignored |-> FALSE]

\* a render of the Toggles in I, each with its props; u2c counts the
\* uncontrolled-to-controlled warnings of each Toggle so far
RenderToggles(a, I, env) ==
  LET ts == [i \in 1..3 |->
               IF i \in I
               THEN useToggle(a.toggles[i], ToggleProps(a, i), env)
               ELSE a.toggles[i]]
  IN  [a EXCEPT !.toggles = ts,
                !.u2c = [i \in 1..3 |->
                           a.u2c[i] + (IF i \in I THEN ts[i].warnings.u2c ELSE 0)]]

\* a later render of App renders its three Toggles
RenderApp(a, env) == RenderToggles(a, {1, 2, 3}, env)

\* mutant: the limit is one click later
handleToggleChange_Late(a, state, action) ==
  IF action.type = actionTypes.toggle /\ a.timesClicked > 5
  THEN [a EXCEPT !.ignored = TRUE]
  ELSE [a EXCEPT !.bothOn = BoolStr(state.on), !.timesClicked = @ + 1]

\* `ignored` records that a notification has been ignored
handleToggleChange(a, state, action) ==
  IF action.type = actionTypes.toggle /\ a.timesClicked > 4
  THEN [a EXCEPT !.ignored = TRUE]
  ELSE [a EXCEPT !.bothOn = BoolStr(state.on), !.timesClicked = @ + 1]

handleResetClick(a) == [a EXCEPT !.bothOn = "false", !.timesClicked = 0]

\* the onChange calls of a shared Toggle, delivered to handleToggleChange
RECURSIVE Notify(_, _)
Notify(a, calls) ==
  IF calls = <<>> THEN a
  ELSE Notify(handleToggleChange(a, Head(calls)[1], Head(calls)[2]), Tail(calls))

\* a click on the Switch of the i-th Toggle, which carries
\* getTogglerProps({on}), and the render React does afterwards: of App when
\* the handler has set App's state, of the Toggle alone when only its
\* reducer has a pending update
SwitchClicked(a, i, env) ==
  LET t == a.toggles[i]
      h == getTogglerProps(t, "on" :> BoolStr(t.on))["onClick"]
      t1 == RunCalls(t, Invoke(h, "event"))
      a1 == [a EXCEPT !.toggles[i] = t1]
      a2 == IF i \in {1, 2} THEN Notify(a1, t1.calls) ELSE a1
      updated == a2.bothOn # a.bothOn \/ a2.timesClicked # a.timesClicked
  IN  IF updated THEN RenderApp(a2, env)
      ELSE IF t1.queue # <<>> THEN RenderToggles(a2, {i}, env)
      ELSE a2

\* a click on the Reset button
ResetClicked(a, env) ==
  LET a1 == handleResetClick(a)
      updated == a1.bothOn # a.bothOn \/ a1.timesClicked # a.timesClicked
  IN  IF updated THEN RenderApp(a1, env) ELSE a1

\* the hook instance of the first part stays as mounted while App runs
AppInit ==
  \E env \in NodeEnvs :
    /\ app = MountApp(env)
    /\ nodeEnv = env
    /\ c = Mount([on |-> "undefined", onChange |-> "undefined",
                  readOnly |-> FALSE, initialOn |-> FALSE], env)
    /\ prod = Mount([on |-> "undefined", onChange |-> "undefined",
                     readOnly |-> FALSE, initialOn |-> FALSE], "production")
    /\ mountInitialOn = FALSE
    /\ mountControlled = FALSE
    /\ lastOp = "mount"
    /\ nDispatch = 0
    /\ nSinkDispatch = 0
    /\ onlyToggles = TRUE
    /\ click = NoClick

SwitchName(i) == <<"switch1", "switch2", "switch3">>[i]

\* the user clicks the Switch of one of the three Toggles
ClickSwitch ==
  /\ app.nEvents < MaxClicks
  /\ \E i \in 1..3 :
       app' = [SwitchClicked(app, i, nodeEnv) EXCEPT !.nEvents = @ + 1,
                                                    !.last = SwitchName(i)]
  /\ UNCHANGED <<c, prod, nodeEnv, mountInitialOn, mountControlled, lastOp,
                 nDispatch, nSinkDispatch, onlyToggles, click>>

\* the user clicks the Reset button
ClickReset ==
  /\ app.nEvents < MaxClicks
  /\ app' = [ResetClicked(app, nodeEnv) EXCEPT !.nEvents = @ + 1,
                                              !.last = "reset"]
  /\ UNCHANGED <<c, prod, nodeEnv, mountInitialOn, mountControlled, lastOp,
                 nDispatch, nSinkDispatch, onlyToggles, click>>

AppNext == ClickSwitch \/ ClickReset

AppSpec == AppInit /\ [][AppNext]_vars

\* ------------------------------------------------------------ properties
\* a step that is a toggle() or reset() call
IsDispatchStep == nDispatch' # nDispatch

\* a step that is a render of the component
IsRenderStep == lastOp' = "render"

Dev == nodeEnv # "production"

\* C1: while the configuration is externally owned, a toggle() or reset()
\* call leaves the store (its state and its pending updates) as it was.
C1_ControlledDispatchKeepsStore ==
  [][(IsDispatchStep /\ NotNull(c.props.on))
       => (c'.state = c.state /\ c'.queue = c.queue
           /\ StoreCurrent(c') = StoreCurrent(c))]_vars

C1_Witness ==
  /\ lastOp \in {"toggle", "reset"}
  /\ NotNull(c.props.on)
  /\ nDispatch >= 2
  /\ c.state.on # ControlledOn(c.props.on)

\* C2: with an onChange sink, the suggestion of a dispatch is the reducer
\* applied to the effective state (the on prop when present, the state read
\* from the store otherwise) and the action; toggle() under on = v delivers
\* ({on: ~v}, toggle).
C2_SuggestionFromEffectiveState ==
  [][(IsDispatchStep /\ HasOnChange(c.props.onChange))
       => LET eff == IF c.props.on \in {"true", "false"}
                     THEN c.props.on = "true" ELSE c.state.on
              action == IF lastOp' = "toggle"
                        THEN [type |-> "toggle"]
                        ELSE [type |-> "reset", initialState |-> c.initialState]
          IN  /\ c'.calls = << <<toggleReducer([on |-> eff], action), action>> >>
              /\ (lastOp' = "toggle" /\ c.props.on \in {"true", "false"})
                   => c'.calls[1][1] = [on |-> c.props.on # "true"]]_vars

C2_Witness ==
  /\ lastOp = "toggle"
  /\ c.props.on = "false"
  /\ c.state.on = TRUE
  /\ c.calls = << <<[on |-> TRUE], [type |-> "toggle"]>> >>

\* C3: a toggle() or reset() call invokes the sink exactly once when an
\* onChange prop is present and not at all when it is absent, in both
\* ownership modes; nothing else invokes it, so the number of invocations is
\* the number of dispatches made with a sink.
C3_OneCallPerDispatch ==
  /\ [](c.nCalls = nSinkDispatch)
  /\ [][/\ (IsDispatchStep /\ HasOnChange(c.props.onChange))
             => (Len(c'.calls) = 1 /\ c'.nCalls = c.nCalls + 1)
        /\ (IsDispatchStep /\ ~HasOnChange(c.props.onChange))
             => (c'.calls = <<>> /\ c'.nCalls = c.nCalls)
        /\ ~IsDispatchStep => c'.nCalls = c.nCalls]_vars

C3_Witness ==
  /\ nDispatch = 3
  /\ nSinkDispatch = 2
  /\ c.nCalls = 2
  /\ Len(c.calls) = 1
  /\ ~NotNull(c.props.on)

\* C4: uncontrolled from initialOn = false with nothing but toggles, the
\* store holds on = (number of toggles is odd), the effective state equals
\* the state read from the store, and once the component has rendered after
\* n toggles the effective state is (n is odd): false, true, false, true.
C4_UncontrolledToggleSequence ==
  (onlyToggles /\ ~mountInitialOn)
    => /\ StoreCurrent(c).on = (nDispatch % 2 = 1)
       /\ c.on = c.state.on
       /\ (c.queue = <<>> => c.on = (nDispatch % 2 = 1))

C4_Witness ==
  /\ onlyToggles /\ ~mountInitialOn
  /\ nDispatch = 3
  /\ c.queue = <<>>
  /\ c.on = TRUE
  /\ c.state.on = TRUE

\* C5: the effective state is the on prop when that is present (false
\* included) and the state read from the store when it is absent.
C5_EffectiveState ==
  /\ c.props.on \in {"true", "false"} => c.on = (c.props.on = "true")
  /\ c.props.on \in {"undefined", "null"} => c.on = c.state.on
  /\ NotNull(c.props.on) <=> c.props.on \in {"true", "false"}

C5_Witness ==
  /\ c.props.on = "false"
  /\ c.state.on = TRUE
  /\ c.on = FALSE
  /\ lastOp = "render"

\* C6: (development build) a component constructed uncontrolled logs no flip
\* warning at construction, logs exactly one uncontrolled-to-controlled
\* warning at the render that makes it controlled, and logs no flip warning
\* at a render that leaves the ownership mode as it was.
C6_FlipOnce ==
  /\ []((Dev /\ lastOp = "mount" /\ ~mountControlled)
          => (c.warnings.u2c = 0 /\ c.warnings.c2u = 0))
  /\ [][(Dev /\ IsRenderStep /\ ~mountControlled)
          => /\ (~NotNull(c.props.on) /\ NotNull(c'.props.on))
                  => (c'.warnings.u2c = 1 /\ c'.warnings.c2u = 0)
             /\ (NotNull(c.props.on) = NotNull(c'.props.on))
                  => (c'.warnings.u2c = 0 /\ c'.warnings.c2u = 0)]_vars

C6_Witness ==
  /\ Dev /\ ~mountControlled
  /\ lastOp = "render"
  /\ NotNull(c.props.on)
  /\ c.warnings.u2c = 1

C6_WitnessNoRepeat ==
  /\ Dev /\ ~mountControlled
  /\ lastOp = "render"
  /\ NotNull(c.props.on)
  /\ c.warnings.u2c = 0

\* C7 (as claimed): in the development build every render that takes the
\* ownership mode from internal to external logs uncontrolled-to-controlled
\* and every render that takes it from external to internal logs
\* controlled-to-uncontrolled.
C7_EveryFlipWarns ==
  [][(Dev /\ IsRenderStep)
       => /\ (~NotNull(c.props.on) /\ NotNull(c'.props.on))
               => c'.warnings.u2c = 1
          /\ (NotNull(c.props.on) /\ ~NotNull(c'.props.on))
               => c'.warnings.c2u = 1]_vars

\* C8: the read-only warning is logged only for a configuration that is
\* externally owned, has no onChange and has readOnly false; in the
\* development build it is logged once whenever the check runs (at
\* construction, and at a render that changes one of hasOnChange,
\* isControlled, readOnly) on such a configuration.
IsReadOnlyConfig(p) ==
  p.on \in {"true", "false"} /\ p.onChange = "undefined" /\ ~p.readOnly

ReadOnlyCheckRuns(p, q) ==
  \/ (p.on \in {"true", "false"}) # (q.on \in {"true", "false"})
  \/ (p.onChange = "undefined") # (q.onChange = "undefined")
  \/ p.readOnly # q.readOnly

C8_ReadOnlyGating ==
  /\ [](c.warnings.ro > 0 => IsReadOnlyConfig(c.props))
  /\ []((Dev /\ lastOp = "mount")
         => c.warnings.ro = (IF IsReadOnlyConfig(c.props) THEN 1 ELSE 0))
  /\ [][(Dev /\ IsRenderStep /\ ReadOnlyCheckRuns(c.props, c'.props))
         => c'.warnings.ro = (IF IsReadOnlyConfig(c'.props) THEN 1 ELSE 0)]_vars

C8_Witness ==
  /\ Dev /\ lastOp = "render"
  /\ IsReadOnlyConfig(c.props)
  /\ c.warnings.ro = 1

C8_WitnessAcknowledged ==
  /\ Dev /\ lastOp = "render"
  /\ c.props.on = "true" /\ c.props.onChange = "undefined" /\ c.props.readOnly
  /\ c.warnings.ro = 0

\* C9: the run under the build with diagnostics and the run under the
\* production build, given the same renders and calls, agree on the store
\* (state, pending updates, captured initial state), on the effective state
\* and on the onChange calls.
Observable(x) ==
  [initialState |-> x.initialState, state |-> x.state, queue |-> x.queue,
   on |-> x.on, calls |-> x.calls, nCalls |-> x.nCalls]

C9_DiagnosticsDoNotInterfere == Observable(c) = Observable(prod)

C9_Witness ==
  /\ Dev
  /\ c.warnings.u2c + c.warnings.c2u + c.warnings.ro >= 2
  /\ lastOp \in {"toggle", "reset"}
  /\ nDispatch >= 2
  /\ c.nCalls >= 1

\* C10: the captured initial state is {on: initialOn of the first render}
\* for the whole lifetime, whatever initialOn later renders pass, and a
\* reset() in uncontrolled mode leaves the store holding it.
C10_ResetRestoresConstructionValue ==
  /\ [](c.initialState = [on |-> mountInitialOn])
  /\ [][/\ c'.initialState = c.initialState
        /\ (lastOp' = "reset" /\ IsDispatchStep /\ ~NotNull(c.props.on))
             => StoreCurrent(c') = [on |-> mountInitialOn]]_vars

C10_Witness ==
  /\ lastOp = "reset"
  /\ ~NotNull(c.props.on)
  /\ c.props.initialOn # mountInitialOn
  /\ c.state.on # mountInitialOn
  /\ StoreCurrent(c) = [on |-> mountInitialOn]
  /\ Len(c.queue) >= 2

\* C11 (as claimed): a dispatch of an action whose type the reducer does not
\* handle throws "Unsupported type" to its caller, whatever the ownership
\* mode and whether or not there is an onChange prop.
C11_UnsupportedActionThrows ==
  [][(IsDispatchStep /\ lastOp' = "other")
       => c'.thrown = Thrown.thrown]_vars

\* C12 (as claimed): when a dispatch throws "Unsupported type", the store is
\* as it was before the dispatch (same state, no update left pending from
\* it) and onChange was not called for it.
C12_FailedDispatchLeavesNothing ==
  [][(IsDispatchStep /\ c'.thrown # "none")
       => /\ c'.state = c.state
          /\ c'.queue = c.queue
          /\ c'.calls = <<>>
          /\ c'.nCalls = c.nCalls]_vars

\* C13: a click on the element carrying getTogglerProps(overrides) calls the
\* caller's onClick first, when one is given, and then toggle, each once and
\* with the event of the click; without a caller's onClick it calls toggle
\* alone.  The same holds for getResetterProps with reset.
ExpectedClickLog(onClick, own) ==
  IF onClick = "handler"
  THEN << <<"handler", "event">>, <<own, "event">> >>
  ELSE << <<own, "event">> >>

C13_ClickHandlerOrder ==
  [][/\ (IsDispatchStep /\ click'.target = "toggler")
          => /\ click'.log = ExpectedClickLog(click'.onClick, "toggle")
             /\ c' = toggle(c)
             /\ nDispatch' = nDispatch + 1
     /\ (IsDispatchStep /\ click'.target = "resetter")
          => /\ click'.log = ExpectedClickLog(click'.onClick, "reset")
             /\ c' = reset(c)
             /\ nDispatch' = nDispatch + 1]_vars

C13_Witness ==
  /\ click.target = "toggler"
  /\ click.onClick = "handler"
  /\ click.log = << <<"handler", "event">>, <<"toggle", "event">> >>
  /\ c.queue # <<>>
  /\ c.nCalls >= 1

\* C14: the bundle of getTogglerProps(overrides) has aria-pressed equal to
\* the effective state unless overrides has that key, has every key of
\* overrides other than onClick with the caller's value, and has as onClick
\* the composition of the caller's onClick and toggle; the bundle of
\* getResetterProps is the same with reset and without aria-pressed.
C14_PropBundles ==
  \A ov \in Overrides :
    LET t == getTogglerProps(c, ov)
        r == getResetterProps(c, ov)
    IN  /\ DOMAIN t = DOMAIN ov \cup {"aria-pressed", "onClick"}
        /\ "aria-pressed" \notin DOMAIN ov => t["aria-pressed"] = BoolStr(c.on)
        /\ \A k \in DOMAIN ov \ {"onClick"} : t[k] = ov[k] /\ r[k] = ov[k]
        /\ t["onClick"] = [callAll |-> <<OnClickOf(ov), "toggle">>]
        /\ DOMAIN r = DOMAIN ov \cup {"onClick"}
        /\ r["onClick"] = [callAll |-> <<OnClickOf(ov), "reset">>]

C14_Witness ==
  /\ click.target = "toggler"
  /\ c.on
  /\ \E ov \in Overrides :
       /\ DOMAIN ov = OverrideKeys
       /\ getTogglerProps(c, ov)["aria-pressed"] = "mixed"
       /\ getTogglerProps(c, [k \in {"aria-label"} |-> ov[k]])["aria-pressed"] = "true"

\* C15 (as claimed): uncontrolled and with an onChange prop, the suggestion
\* passed to onChange by a dispatch is the state the store holds once that
\* dispatch's action is applied, also when earlier dispatches are still
\* pending.
C15_SuggestionIsNextStoreState ==
  [][(IsDispatchStep /\ ~NotNull(c.props.on) /\ HasOnChange(c.props.onChange))
       => /\ Len(c'.calls) = 1
          /\ c'.calls[1][1] = StoreCurrent(c')]_vars

\* C16: toggleReducer undoes a toggle by a second toggle and answers a reset
\* with the initialState of the action whatever the state, for every state
\* and initial state and in particular for those of the hook.
C16_ReducerLaws ==
  /\ \A s, i \in ToggleState :
       LET t == [type |-> actionTypes.toggle]
           r == [type |-> actionTypes.reset, initialState |-> i]
       IN  /\ toggleReducer(toggleReducer(s, t), r) = i
           /\ toggleReducer(toggleReducer(s, t), t) = s
  /\ toggleReducer(toggleReducer(StoreCurrent(c), [type |-> actionTypes.toggle]),
                   [type |-> actionTypes.reset, initialState |-> c.initialState])
       = c.initialState
  /\ toggleReducer(toggleReducer(StoreCurrent(c), [type |-> actionTypes.toggle]),
                   [type |-> actionTypes.toggle])
       = StoreCurrent(c)

C16_Witness ==
  /\ Len(c.queue) = 2
  /\ c.queue[1].type = "toggle"
  /\ c.queue[2].type = "reset"
  /\ c.state # c.initialState
  /\ StoreCurrent(c) = c.initialState

\* a step that is a click on the Switch of one of the two shared Toggles
IsSharedSwitchStep ==
  app'.nEvents # app.nEvents /\ app'.last \in {"switch1", "switch2"}

IsResetClickStep == app'.nEvents # app.nEvents /\ app'.last = "reset"

\* C17: in App the two Toggles given bothOn show the same effective state in
\* every reachable state, whichever is clicked, also when their stores
\* differ.
C17_SharedTogglesAgree ==
  /\ app.toggles[1].on = app.toggles[2].on
  /\ app.bothOn # "undefined"
       => app.toggles[1].on = (app.bothOn = "true")

C17_Witness ==
  /\ app.toggles[1].state # app.toggles[2].state
  /\ app.toggles[1].on = app.toggles[2].on
  /\ app.bothOn = "false"
  /\ app.last = "switch2"

\* C18: in App the click count never exceeds 5; while it is above 4 a click
\* on a shared Toggle leaves bothOn and the count as they are; a click on
\* Reset sets bothOn to false and the count to 0, after which a click on a
\* shared Toggle counts and inverts bothOn again.
C18_ClickLimit ==
  /\ [](app.timesClicked <= 5)
  /\ [][/\ (IsSharedSwitchStep /\ app.timesClicked > 4)
             => (app'.bothOn = app.bothOn
                 /\ app'.timesClicked = app.timesClicked)
        /\ IsResetClickStep
             => (app'.bothOn = "false" /\ app'.timesClicked = 0)
        /\ (IsSharedSwitchStep /\ app.timesClicked <= 4)
             => (app'.timesClicked = app.timesClicked + 1
                 /\ app'.bothOn = BoolStr(~app.toggles[1].on))]_vars

C18_Witness ==
  /\ app.ignored
  /\ app.last \in {"switch1", "switch2"}
  /\ app.timesClicked = 1
  /\ app.bothOn = "true"

\* C19: in App the two shared Toggles start internally owned; from the
\* first click on one of them or on Reset both are externally owned and stay
\* so; in the development build each has then logged exactly one
\* uncontrolled-to-controlled warning, and none before.
C19_SharedTogglesBecomeControlled ==
  /\ [](\A i \in {1, 2} :
          /\ app.last = "mount" => ~NotNull(app.toggles[i].props.on)
          /\ NotNull(app.toggles[i].props.on) <=> app.bothOn # "undefined"
          /\ Dev => app.u2c[i] = (IF app.bothOn # "undefined" THEN 1 ELSE 0))
  /\ [][/\ app.bothOn # "undefined" => app'.bothOn # "undefined"
        /\ (IsSharedSwitchStep \/ IsResetClickStep) => app'.bothOn # "undefined"]_vars

C19_Witness ==
  /\ Dev
  /\ app.u2c[1] = 1 /\ app.u2c[2] = 1
  /\ app.nEvents = MaxClicks
  /\ app.toggles[1].warnings.u2c = 0
  /\ NotNull(app.toggles[2].props.on)

TypeOK ==
  /\ c.state \in ToggleState
  /\ c.initialState \in ToggleState
  /\ c.on \in BOOLEAN
  /\ c.props \in Props
  /\ Len(c.queue) <= MaxDispatch
  /\ Len(c.calls) <= 1
  /\ c.nCalls <= MaxDispatch
====
